---- MODULE Spec2Model ----
(***************************************************************************)
(* Model of hanpama/uncovered: the line extractor                          *)
(* (coverage.GetUncoveredLines) and the renderer (renderer.Render,         *)
(* renderFile, groupLines, renderGroup, printFileHeader).                  *)
(*                                                                         *)
(* Three specifications share the module:                                  *)
(*   Spec        - GetUncoveredLines on a bounded block list, invoked      *)
(*                 again on permutations of the same list;                 *)
(*   SpecGroup   - groupLines followed by renderGroup on every group, for  *)
(*                 one file's uncovered lines and one file length;         *)
(*   SpecRender  - Render over a list of files, one loop iteration per     *)
(*                 step, against a file system whose files may be          *)
(*                 unreadable.                                             *)
(***************************************************************************)
EXTENDS Integers, Sequences, FiniteSets, TLC

VARIABLES
    pc,         \* extractor: "start" before the call, "done" after it returned
    blocks,     \* extractor: profile.Blocks, the input block list
    result,     \* extractor: the returned []*FileUncovered
    prev,       \* extractor: <<the previous invocation: its result, and whether the
                \* blocks were reordered after it>>, <<>> if none
    gpc,        \* grouper: "input" | "grouped" | "idle"
    gLines,     \* grouper: one file's []UncoveredLine
    allLines,   \* grouper: the source file's lines (content of line i)
    groups,     \* grouper: the []lineGroup returned by groupLines
    gi,         \* grouper: index of the next group handed to renderGroup
    shown,      \* grouper: per rendered group, the events renderGroup wrote
    rpc,        \* renderer: "run" | "ok" | "failed" | "idle"
    uncovered,  \* renderer: the []*FileUncovered given to Render
    fs,         \* renderer: file name -> [status, n] (the disk)
    fi,         \* renderer: loop index i of Render (1-based)
    io,         \* renderer: ordered trace of os.Open/read/close and sink writes
    err         \* renderer: <<the error Render returned>>, <<>> for nil

vars == <<pc, blocks, result, prev, gpc, gLines, allLines, groups, gi, shown,
          rpc, uncovered, fs, fi, io, err>>

extractVars == <<pc, blocks, result, prev>>
groupVars == <<gpc, gLines, allLines, groups, gi, shown>>
renderVars == <<rpc, uncovered, fs, fi, io, err>>

---------------------------------------------------------------------------
(* Bounds of the model *)

MaxBlocks == 2      \* longest block list
MaxLine == 2        \* largest line number in a block
MaxGLine == 17      \* largest uncovered line number handed to groupLines
MaxUnc == 3         \* most uncovered lines handed to groupLines
MaxLen == 12        \* longest source file (lines)
MaxFiles == 2       \* longest file list handed to Render
LongNameLen == 60   \* length of the long file name

(* Program constant *)
contextLines == 3

---------------------------------------------------------------------------
(* File names are byte strings; Go compares them bytewise. *)

NameA == <<97>>
NameAB == <<97, 98>>
NameLong == [i \in 1..LongNameLen |-> 99]

Min(a, b) == IF a < b THEN a ELSE b
Max(a, b) == IF a > b THEN a ELSE b

RECURSIVE StrLessFrom(_, _, _)
StrLessFrom(s, t, i) ==
    IF i > Len(s) THEN i <= Len(t)
    ELSE IF i > Len(t) THEN FALSE
    ELSE IF s[i] # t[i] THEN s[i] < t[i]
    ELSE StrLessFrom(s, t, i + 1)

\* Go's < on strings
StrLess(s, t) == StrLessFrom(s, t, 1)

\* All enumerations of a finite set (the orders a Go map range can take)
Orders(S) ==
    {s \in [1..Cardinality(S) -> S] :
        \A i, j \in 1..Cardinality(S) : i # j => s[i] # s[j]}

\* All permutations of a sequence
Perms(s) ==
    {[i \in 1..Len(s) |-> s[p[i]]] : p \in Orders(1..Len(s))}

EmptyMap == [x \in {} |-> 0]

---------------------------------------------------------------------------
(* coverage: Block, IsCovered, GetUncoveredLines *)

BlockFiles == {NameA, NameAB}
StartCols == {2, 5}

\* The blocks a profile may hold: uncovered ones with either start column,
\* covered ones, one line or several, inverted ranges included.
BlockUniverse ==
    {[FileName |-> f, StartLine |-> sl, StartCol |-> sc, EndLine |-> el,
      EndCol |-> 9, Count |-> 0] :
        f \in BlockFiles, sl \in 1..MaxLine, sc \in StartCols, el \in 1..MaxLine}
    \cup
    {[FileName |-> f, StartLine |-> sl, StartCol |-> 2, EndLine |-> el,
      EndCol |-> 9, Count |-> 1] :
        f \in BlockFiles, sl \in 1..MaxLine, el \in 1..MaxLine}

BlockLists == UNION {[1..n -> BlockUniverse] : n \in 0..MaxBlocks}

IsCovered(b) == b.Count > 0

LineLoopCondShort(line, b) == line < b.EndLine

\* for line := block.StartLine; line <= block.EndLine; line++
LineLoopCond(line, b) == line <= b.EndLine

\* col := 0; if line == block.StartLine { col = block.StartCol }
CandidateCol(line, b) == IF line = b.StartLine THEN b.StartCol ELSE 0

ColumnWinsAlways(lm, line, col) == TRUE

\* !exists || col < existingCol
ColumnWins(lm, line, col) == line \notin DOMAIN lm \/ col < lm[line]

PutLine(lm, line, col) ==
    [l \in DOMAIN lm \cup {line} |-> IF l = line THEN col ELSE lm[l]]

RECURSIVE AddLines(_, _, _)
AddLines(lm, b, line) ==
    IF ~LineLoopCond(line, b) THEN lm
    ELSE LET col == CandidateCol(line, b)
             lm1 == IF ColumnWins(lm, line, col) THEN PutLine(lm, line, col)
                    ELSE lm
         IN AddLines(lm1, b, line + 1)

\* One iteration of the loop over profile.Blocks
AddBlock(fm, b) ==
    IF IsCovered(b) THEN fm
    ELSE LET fm1 == IF b.FileName \in DOMAIN fm THEN fm
                    ELSE [f \in DOMAIN fm \cup {b.FileName} |->
                            IF f = b.FileName THEN EmptyMap ELSE fm[f]]
         IN [fm1 EXCEPT ![b.FileName] = AddLines(fm1[b.FileName], b, b.StartLine)]

RECURSIVE BuildFileMapFrom(_, _, _)
BuildFileMapFrom(fm, bs, i) ==
    IF i > Len(bs) THEN fm
    ELSE BuildFileMapFrom(AddBlock(fm, bs[i]), bs, i + 1)

\* The fileMap after the loop over profile.Blocks
BuildFileMap(bs) == BuildFileMapFrom(EmptyMap, bs, 1)

\* Insertion of x into a sequence sorted by Line
RECURSIVE InsertLine(_, _)
InsertLine(s, x) ==
    IF s = <<>> THEN <<x>>
    ELSE IF x.Line < Head(s).Line THEN <<x>> \o s
    ELSE <<Head(s)>> \o InsertLine(Tail(s), x)

RECURSIVE SortLinesFrom(_, _, _)
SortLinesFrom(acc, s, i) ==
    IF i > Len(s) THEN acc
    ELSE SortLinesFrom(InsertLine(acc, s[i]), s, i + 1)

SortLinesNot(s) == s

\* sort.Slice(lines, lines[i].Line < lines[j].Line)
SortLines(s) == SortLinesFrom(<<>>, s, 1)

RECURSIVE InsertFile(_, _)
InsertFile(s, x) ==
    IF s = <<>> THEN <<x>>
    ELSE IF StrLess(x.FileName, Head(s).FileName) THEN <<x>> \o s
    ELSE <<Head(s)>> \o InsertFile(Tail(s), x)

RECURSIVE SortFilesFrom(_, _, _)
SortFilesFrom(acc, s, i) ==
    IF i > Len(s) THEN acc
    ELSE SortFilesFrom(InsertFile(acc, s[i]), s, i + 1)

SortFilesNot(s) == s

\* sort.Slice(result, result[i].FileName < result[j].FileName)
SortFiles(s) == SortFilesFrom(<<>>, s, 1)

\* The sorted Lines of one file, for every order the range over lineMap can take
ConvertLines(lm) ==
    {SortLines([i \in 1..Len(o) |-> [Line |-> o[i], Col |-> lm[o[i]]]]) :
        o \in Orders(DOMAIN lm)}

\* The result slice before the final sort, the files ranged over in the
\* order fo
RECURSIVE ConvertFilesFrom(_, _, _)
ConvertFilesFrom(fm, fo, i) ==
    IF i > Len(fo) THEN {<<>>}
    ELSE {<<[FileName |-> fo[i], Lines |-> ls]>> \o rest :
            ls \in ConvertLines(fm[fo[i]]),
            rest \in ConvertFilesFrom(fm, fo, i + 1)}

ConvertFiles(fm, fo) == ConvertFilesFrom(fm, fo, 1)

InitIdleGroup ==
    /\ gpc = "idle" /\ gLines = <<>> /\ allLines = <<>>
    /\ groups = <<>> /\ gi = 1 /\ shown = <<>>

InitIdleRender ==
    /\ rpc = "idle" /\ uncovered = <<>> /\ fs = EmptyMap
    /\ fi = 1 /\ io = <<>> /\ err = <<>>

InitIdleExtract ==
    /\ pc = "idle" /\ blocks = <<>> /\ result = <<>> /\ prev = <<>>

Init ==
    /\ pc = "start"
    /\ blocks \in BlockLists
    /\ result = <<>>
    /\ prev = <<>>
    /\ InitIdleGroup
    /\ InitIdleRender

\* func GetUncoveredLines(profile *Profile) []*FileUncovered
GetUncoveredLines ==
    /\ pc = "start"
    /\ LET fm == BuildFileMap(blocks)
       IN \E fo \in Orders(DOMAIN fm) :
            \E r \in ConvertFiles(fm, fo) :
                result' = SortFiles(r)
    /\ pc' = "done"
    /\ UNCHANGED <<blocks, prev, groupVars, renderVars>>

\* The caller invokes GetUncoveredLines again, the blocks in another order
Reinvoke ==
    /\ pc = "done"
    /\ \E bs \in Perms(blocks) : blocks' = bs
    /\ prev' = <<[result |-> result, reordered |-> blocks' # blocks]>>
    /\ result' = <<>>
    /\ pc' = "start"
    /\ UNCHANGED <<groupVars, renderVars>>

Next == GetUncoveredLines \/ Reinvoke

Spec == Init /\ [][Next]_vars

---------------------------------------------------------------------------
(* renderer: groupLines, renderGroup, renderLine *)

WithinGroupStrict(line, end) == line < end + 2 * contextLines + 1

WithinGroupNarrow(line, end) == line <= end + contextLines

\* lines[i].Line <= currentGroup.end+2*contextLines+1
WithinGroup(line, end) == line <= end + 2 * contextLines + 1

\* lineGroup{start: l.Line, end: l.Line, lines: []UncoveredLine{l}}
NewGroup(l) == [start |-> l.Line, end |-> l.Line, lines |-> <<l>>]

RECURSIVE GroupFrom(_, _, _, _)
GroupFrom(gs, cur, lines, i) ==
    IF i > Len(lines) THEN Append(gs, cur)
    ELSE IF WithinGroup(lines[i].Line, cur.end)
    THEN GroupFrom(gs,
                   [cur EXCEPT !.end = lines[i].Line,
                               !.lines = Append(@, lines[i])],
                   lines, i + 1)
    ELSE GroupFrom(Append(gs, cur), NewGroup(lines[i]), lines, i + 1)

\* func (r *Renderer) groupLines(lines []coverage.UncoveredLine) []lineGroup
groupLines(lines) ==
    IF Len(lines) = 0 THEN <<>>
    ELSE GroupFrom(<<>>, NewGroup(lines[1]), lines, 2)

\* startLine := max(1, group.start-contextLines)
ContextStart(group) == Max(1, group.start - contextLines)

ContextEndUnclipped(lines, group) == group.end + contextLines

\* endLine := min(len(allLines), group.end+contextLines)
ContextEnd(lines, group) == Min(Len(lines), group.end + contextLines)

\* What renderLine writes: marker, line number, content
renderLine(lineNum, content, isUncovered) ==
    [kind |-> "line", num |-> lineNum, content |-> content,
     uncovered |-> isUncovered]

\* allLines[lineNum-1] with an index out of range: the run-time panic
PanicEvent(lineNum) ==
    [kind |-> "panic", num |-> lineNum, content |-> 0, uncovered |-> FALSE]

RECURSIVE RenderLinesFrom(_, _, _, _, _)
RenderLinesFrom(acc, lines, uncoveredSet, lineNum, endLine) ==
    IF lineNum > endLine THEN acc
    ELSE IF lineNum \notin 1..Len(lines) THEN Append(acc, PanicEvent(lineNum))
    ELSE RenderLinesFrom(
            Append(acc, renderLine(lineNum, lines[lineNum], lineNum \in uncoveredSet)),
            lines, uncoveredSet, lineNum + 1, endLine)

\* func (r *Renderer) renderGroup(w io.Writer, allLines []string, group lineGroup)
renderGroup(lines, group) ==
    LET uncoveredSet == {group.lines[k].Line : k \in 1..Len(group.lines)}
    IN RenderLinesFrom(<<>>, lines, uncoveredSet,
                       ContextStart(group), ContextEnd(lines, group))

\* A source file of n lines; line i has content 100 + i
SourceOf(n) == [i \in 1..n |-> 100 + i]

GroupCols == {0, 5}

\* Strictly increasing uncovered-line sequences of at most MaxUnc lines: a
\* block's first line carries its start column, the lines after it column 0
LineLists ==
    UNION {
        {[i \in 1..n |-> [Line |-> ls[i], Col |-> IF i = 1 THEN c ELSE 0]] :
            ls \in {q \in [1..n -> 1..MaxGLine] :
                        \A i \in 1..n - 1 : q[i] < q[i + 1]},
            c \in GroupCols} :
        n \in 0..MaxUnc}

InitGroup ==
    /\ gpc = "input"
    /\ gLines \in LineLists
    /\ allLines \in {SourceOf(n) : n \in 0..MaxLen}
    /\ groups = <<>>
    /\ gi = 1
    /\ shown = <<>>
    /\ InitIdleExtract
    /\ InitIdleRender

\* groups := r.groupLines(fileUncovered.Lines)
GroupLines ==
    /\ gpc = "input"
    /\ groups' = groupLines(gLines)
    /\ gpc' = "grouped"
    /\ UNCHANGED <<gLines, allLines, gi, shown, extractVars, renderVars>>

\* r.renderGroup(w, lines, group) for the next group
RenderGroup ==
    /\ gpc = "grouped"
    /\ gi <= Len(groups)
    /\ shown' = Append(shown, renderGroup(allLines, groups[gi]))
    /\ gi' = gi + 1
    /\ UNCHANGED <<gpc, gLines, allLines, groups, extractVars, renderVars>>

NextGroup == GroupLines \/ RenderGroup

SpecGroup == InitGroup /\ [][NextGroup]_vars

---------------------------------------------------------------------------
(* renderer: Render, renderFile, printFileHeader, readLines *)

\* Number of decimal digits %d prints for n >= 0
RECURSIVE Digits(_)
Digits(n) == IF n < 10 THEN 1 ELSE 1 + Digits(n \div 10)

\* len(fmt.Sprintf("%s (%d of %d lines uncovered)", fileName, uncoveredCount, totalLines))
HeaderLen(fileName, uncoveredCount, totalLines) ==
    Len(fileName) + 2 + Digits(uncoveredCount) + 4 + Digits(totalLines) + 17

RuleLenUncapped(headerLen) == headerLen

\* min(80, len(header))
RuleLen(headerLen) == Min(80, headerLen)

\* A write to the sink
Write(ev) == [op |-> "write", ev |-> ev]

Blank == [kind |-> "blank"]

\* func (r *Renderer) printFileHeader(w, fileName, uncoveredCount, totalLines)
printFileHeader(fileName, uncoveredCount, totalLines) ==
    << Write([kind |-> "header", fileName |-> fileName,
              uncoveredCount |-> uncoveredCount, totalLines |-> totalLines]),
       Write([kind |-> "rule",
              n |-> RuleLen(HeaderLen(fileName, uncoveredCount, totalLines))]) >>

WriteAll(evs) == [i \in 1..Len(evs) |-> Write(evs[i])]

\* for i, group := range groups { if i > 0 { Fprintln(w) }; renderGroup(...) }
RECURSIVE RenderGroupsFrom(_, _, _)
RenderGroupsFrom(lines, gs, i) ==
    IF i > Len(gs) THEN <<>>
    ELSE (IF i > 1 THEN <<Write(Blank)>> ELSE <<>>)
         \o WriteAll(renderGroup(lines, gs[i]))
         \o RenderGroupsFrom(lines, gs, i + 1)

\* func (r *Renderer) renderFile(w, fileUncovered) error: the I/O it does on a
\* file in state st, and the error it returns (<<>> for nil)
renderFile(fu, st) ==
    IF st.status = "noent"
    THEN [io |-> <<[op |-> "open", file |-> fu.FileName, ok |-> FALSE]>>,
          err |-> <<"open">>]
    ELSE IF st.status = "readerr"
    THEN [io |-> << [op |-> "open", file |-> fu.FileName, ok |-> TRUE],
                    [op |-> "read", file |-> fu.FileName, ok |-> FALSE],
                    [op |-> "close", file |-> fu.FileName] >>,
          err |-> <<"read">>]
    ELSE LET lines == SourceOf(st.n)
         IN [io |-> << [op |-> "open", file |-> fu.FileName, ok |-> TRUE],
                       [op |-> "read", file |-> fu.FileName, ok |-> TRUE] >>
                    \o printFileHeader(fu.FileName, Len(fu.Lines), Len(lines))
                    \o RenderGroupsFrom(lines, groupLines(fu.Lines), 1)
                    \o <<[op |-> "close", file |-> fu.FileName]>>,
             err |-> <<>>]

SeparatorAlways(i) == TRUE

\* if i > 0 { fmt.Fprintln(w) }   (i is 1-based here)
SeparatorBefore(i) == i > 1

WrapErrorNot(fileName, cause) == <<[file |-> <<>>, cause |-> cause]>>

\* fmt.Errorf("rendering %s: %w", fileUncovered.FileName, err)
WrapError(fileName, cause) == <<[file |-> fileName, cause |-> cause]>>

RenderNames == {NameA, NameAB, NameLong}

\* Uncovered-line lists of the rendered files: none, one group, two groups
RenderLineLists ==
    {<<>>,
     <<[Line |-> 2, Col |-> 5]>>,
     <<[Line |-> 2, Col |-> 5], [Line |-> 3, Col |-> 0]>>,
     <<[Line |-> 2, Col |-> 0], [Line |-> 2 + 2 * contextLines + 2, Col |-> 2]>>}

\* File lists as the extractor returns them: names strictly increasing
FileLists ==
    UNION {
        {[i \in 1..n |-> [FileName |-> ns[i], Lines |-> ls[i]]] :
            ns \in {q \in [1..n -> RenderNames] :
                        \A i \in 1..n - 1 : StrLess(q[i], q[i + 1])},
            ls \in [1..n -> RenderLineLists]} :
        n \in 0..MaxFiles}

\* A file on disk: readable with n lines, missing, or failing while read
FileStates ==
    {[status |-> "ok", n |-> n] : n \in {0, contextLines + 1, MaxLen}}
    \cup {[status |-> "noent", n |-> 0], [status |-> "readerr", n |-> 0]}

InitRender ==
    /\ rpc = "run"
    /\ uncovered \in FileLists
    /\ fs \in [RenderNames -> FileStates]
    /\ fi = 1
    /\ io = <<>>
    /\ err = <<>>
    /\ InitIdleExtract
    /\ InitIdleGroup

\* One iteration of the loop of Render
RenderIteration ==
    /\ rpc = "run"
    /\ fi <= Len(uncovered)
    /\ LET fu == uncovered[fi]
           sep == IF SeparatorBefore(fi) THEN <<Write(Blank)>> ELSE <<>>
           r == renderFile(fu, fs[fu.FileName])
       IN /\ io' = io \o sep \o r.io
          /\ IF r.err # <<>>
             THEN /\ err' = WrapError(fu.FileName, r.err[1])
                  /\ rpc' = "failed"
                  /\ fi' = fi
             ELSE /\ fi' = fi + 1
                  /\ UNCHANGED <<err, rpc>>
    /\ UNCHANGED <<uncovered, fs, extractVars, groupVars>>

\* return nil
RenderReturn ==
    /\ rpc = "run"
    /\ fi > Len(uncovered)
    /\ rpc' = "ok"
    /\ UNCHANGED <<uncovered, fs, fi, io, err, extractVars, groupVars>>

NextRender == RenderIteration \/ RenderReturn

SpecRender == InitRender /\ [][NextRender]_vars

---------------------------------------------------------------------------
(* Properties of GetUncoveredLines (specification Spec) *)

Range(s) == {s[i] : i \in 1..Len(s)}

\* The uncovered blocks of file f in the input
UncoveredBlocksOf(f) == {b \in Range(blocks) : b.FileName = f /\ b.Count = 0}

\* Union of the inclusive ranges of the uncovered blocks of f
UncoveredUnion(f) == UNION {b.StartLine..b.EndLine : b \in UncoveredBlocksOf(f)}

\* The entries of the result for file f
EntriesOf(f) == {i \in 1..Len(result) : result[i].FileName = f}

\* The line numbers the result reports for f
ReportedLines(f) ==
    UNION {{result[i].Lines[k].Line : k \in 1..Len(result[i].Lines)} : i \in EntriesOf(f)}

SetMin(S) == CHOOSE x \in S : \A y \in S : x <= y

\* C1: the line numbers reported for a file are exactly the union of the
\* inclusive ranges [StartLine, EndLine] of its blocks with execution count 0,
\* whether or not a covered block also contains the line.
C1_LinesAreUnionOfUncoveredRanges ==
    pc = "done" => \A f \in BlockFiles : ReportedLines(f) = UncoveredUnion(f)

\* C1 witness: an uncovered block of two lines, both reported, one of
\* them also inside a covered block of the same file.
C1_Witness ==
    /\ pc = "done"
    /\ \E f \in BlockFiles :
        /\ Cardinality(ReportedLines(f)) >= 2
        /\ \E b \in Range(blocks) :
            /\ b.FileName = f /\ b.Count > 0
            /\ \E l \in ReportedLines(f) : l \in b.StartLine..b.EndLine

\* C2: the result is strictly increasing by FileName and every Lines
\* sequence is strictly increasing by Line.
C2_SortedNoDuplicates ==
    pc = "done" =>
        /\ \A i \in 1..Len(result) - 1 :
            StrLess(result[i].FileName, result[i + 1].FileName)
        /\ \A i \in 1..Len(result) :
            \A k \in 1..Len(result[i].Lines) - 1 :
                result[i].Lines[k].Line < result[i].Lines[k + 1].Line

\* C2 witness: a file reported with two lines, two uncovered blocks of it
\* overlapping on one of them.
C2_Witness ==
    /\ pc = "done"
    /\ \E i \in 1..Len(result) :
        /\ Len(result[i].Lines) >= 2
        /\ \E m, n \in 1..Len(blocks) :
            /\ m # n
            /\ blocks[m] \in UncoveredBlocksOf(result[i].FileName)
            /\ blocks[n] \in UncoveredBlocksOf(result[i].FileName)
            /\ (blocks[m].StartLine..blocks[m].EndLine)
                 \cap (blocks[n].StartLine..blocks[n].EndLine) # {}

\* The candidate columns of line l of file f: StartCol from a block that
\* starts on l, 0 from a block that covers l as a continuation line
Candidates(f, l) ==
    {IF l = b.StartLine THEN b.StartCol ELSE 0 :
        b \in {c \in UncoveredBlocksOf(f) : l \in c.StartLine..c.EndLine}}

\* C3: the Col of every reported line is the minimum of the candidate
\* columns of the uncovered blocks of that file containing the line.
C3_ColIsMinimumCandidate ==
    pc = "done" =>
        \A i \in 1..Len(result) :
            \A k \in 1..Len(result[i].Lines) :
                LET l == result[i].Lines[k]
                IN /\ Candidates(result[i].FileName, l.Line) # {}
                   /\ l.Col = SetMin(Candidates(result[i].FileName, l.Line))

\* C3 witness: the first block covers line 2 as a continuation line, the
\* second one starts on line 2 at column 5; the reported column is 0.
C3_Witness ==
    /\ pc = "done"
    /\ Len(blocks) = 2
    /\ blocks[1].FileName = blocks[2].FileName
    /\ blocks[1].Count = 0 /\ blocks[2].Count = 0
    /\ blocks[1].StartLine = 1 /\ blocks[1].EndLine = 2
    /\ blocks[2].StartLine = 2 /\ blocks[2].EndLine = 2 /\ blocks[2].StartCol = 5
    /\ \E i \in 1..Len(result) :
        \E k \in 1..Len(result[i].Lines) :
            result[i].Lines[k] = [Line |-> 2, Col |-> 0]

\* C4: a file has a FileUncovered in the result if and only if it has at
\* least one uncovered line, and every returned FileUncovered has a
\* non-empty Lines sequence.
C4_OnlyFilesWithUncoveredLines ==
    pc = "done" =>
        /\ \A f \in BlockFiles : (EntriesOf(f) # {}) <=> (UncoveredUnion(f) # {})
        /\ \A i \in 1..Len(result) : result[i].Lines # <<>>

\* C8: an invocation on a reordering of the same blocks, under any map
\* iteration order, returns the same sequence as the invocation before it.
C8_ResultIndependentOfOrder ==
    (pc = "done" /\ prev # <<>>) => result = prev[1].result

\* C8 witness: a second invocation returned, the blocks were reordered
\* before it, and the result has two files, one with two lines.
C8_Witness ==
    /\ pc = "done"
    /\ prev # <<>>
    /\ prev[1].reordered
    /\ Len(result) = 2
    /\ \E i \in 1..Len(result) : Len(result[i].Lines) >= 2

---------------------------------------------------------------------------
(* Properties of groupLines and renderGroup (specification SpecGroup) *)

RECURSIVE ConcatGroupLines(_, _)
ConcatGroupLines(gs, k) ==
    IF k > Len(gs) THEN <<>> ELSE gs[k].lines \o ConcatGroupLines(gs, k + 1)

\* Number of input lines in the groups before group k
RECURSIVE LinesBefore(_, _)
LinesBefore(gs, k) ==
    IF k <= 1 THEN 0 ELSE LinesBefore(gs, k - 1) + Len(gs[k - 1].lines)

\* The group holding the p-th input line
GroupOfPos(gs, p) ==
    CHOOSE k \in 1..Len(gs) :
        LinesBefore(gs, k) < p /\ p <= LinesBefore(gs, k) + Len(gs[k].lines)

\* C5: groupLines partitions a non-empty strictly increasing input into
\* consecutive runs: the groups' lines concatenate to the input, start and
\* end are the first and last member's Line, neighbours share a group iff
\* they are at most 7 apart, and a group starts more than 7 after the
\* previous group's end.
C5_GroupsPartitionByThreshold ==
    (gpc = "grouped" /\ gLines # <<>>) =>
        /\ ConcatGroupLines(groups, 1) = gLines
        /\ \A k \in 1..Len(groups) :
            /\ groups[k].lines # <<>>
            /\ groups[k].start = groups[k].lines[1].Line
            /\ groups[k].end = groups[k].lines[Len(groups[k].lines)].Line
        /\ \A p \in 1..Len(gLines) - 1 :
            (GroupOfPos(groups, p) = GroupOfPos(groups, p + 1))
                <=> (gLines[p + 1].Line - gLines[p].Line <= 7)
        /\ \A k \in 1..Len(groups) - 1 :
            groups[k + 1].start > groups[k].end + 7

\* C5 witness: neighbours at distance 7 merged, neighbours at distance 8 split.
C5_Witness ==
    /\ gpc = "grouped"
    /\ Len(gLines) = 3
    /\ gLines[2].Line - gLines[1].Line = 7
    /\ gLines[3].Line - gLines[2].Line = 8
    /\ Len(groups) = 2
    /\ Len(groups[1].lines) = 2

\* The line numbers a rendered group shows, in output order
NumsOf(evs) == [i \in 1..Len(evs) |-> evs[i].num]

\* lo, lo+1, ..., hi (empty when hi < lo)
Interval(lo, hi) == IF hi < lo THEN <<>> ELSE [i \in 1..(hi - lo + 1) |-> lo + i - 1]

GroupLineSet(g) == {g.lines[k].Line : k \in 1..Len(g.lines)}

\* C6: renderGroup emits exactly the lines max(1, start-3)..min(N, end+3) in
\* increasing order, each once, marked uncovered iff it is one of the
\* group's lines, reading only source lines 1..N.
C6_WindowClippedToFile ==
    \A k \in 1..Len(shown) :
        LET g == groups[k]
            n == Len(allLines)
            lo == IF g.start - 3 > 1 THEN g.start - 3 ELSE 1
            hi == IF g.end + 3 < n THEN g.end + 3 ELSE n
        IN /\ NumsOf(shown[k]) = Interval(lo, hi)
           /\ \A i \in 1..Len(shown[k]) :
                /\ shown[k][i].kind = "line"
                /\ shown[k][i].num \in 1..n
                /\ shown[k][i].content = allLines[shown[k][i].num]
                /\ shown[k][i].uncovered <=> (shown[k][i].num \in GroupLineSet(g))

\* C6 witness: a group rendered with its window clipped at line 1 and at
\* the last line, one of its uncovered lines lying beyond the file's end.
C6_Witness ==
    \E k \in 1..Len(shown) :
        /\ shown[k] # <<>>
        /\ groups[k].start - 3 < 1
        /\ groups[k].end > Len(allLines)
        /\ shown[k][1].num = 1
        /\ shown[k][Len(shown[k])].num = Len(allLines)
        /\ shown[k][Len(shown[k])].uncovered

RECURSIVE ConcatShown(_, _)
ConcatShown(sh, k) ==
    IF k > Len(sh) THEN <<>> ELSE NumsOf(sh[k]) \o ConcatShown(sh, k + 1)

\* C10: over one file the rendered line numbers are strictly increasing, and
\* between the windows of two consecutive groups at least one source line is
\* not displayed.
C10_WindowsDisjointAndApart ==
    /\ LET all == ConcatShown(shown, 1)
       IN \A i \in 1..Len(all) - 1 : all[i] < all[i + 1]
    /\ \A k \in 1..Len(shown) - 1 :
        (shown[k] # <<>> /\ shown[k + 1] # <<>>) =>
            shown[k + 1][1].num > shown[k][Len(shown[k])].num + 1

\* C10 witness: all groups of a file rendered, two consecutive windows with
\* exactly one undisplayed line between them.
C10_Witness ==
    /\ gpc = "grouped"
    /\ gi > Len(groups)
    /\ \E k \in 1..Len(shown) - 1 :
        /\ shown[k] # <<>> /\ shown[k + 1] # <<>>
        /\ shown[k + 1][1].num = shown[k][Len(shown[k])].num + 2

---------------------------------------------------------------------------
(* Properties of Render (specification SpecRender) *)

\* What reached the sink, in order
Sink(trace) ==
    LET ws == SelectSeq(trace, LAMBDA e : e.op = "write")
    IN [i \in 1..Len(ws) |-> ws[i].ev]

\* The files opened, in order
Opened(trace) ==
    LET os == SelectSeq(trace, LAMBDA e : e.op = "open")
    IN [i \in 1..Len(os) |-> os[i].file]

\* Groups with one blank line between two consecutive ones
RECURSIVE JoinGroups(_, _, _)
JoinGroups(lines, gs, k) ==
    IF k > Len(gs) THEN <<>>
    ELSE renderGroup(lines, gs[k])
         \o (IF k < Len(gs) THEN <<Blank>> ELSE <<>>)
         \o JoinGroups(lines, gs, k + 1)

\* The output of one file of n lines: header, rule, groups
ExpectedFile(fu, n) ==
    LET hlen == Len(fu.FileName) + 2 + Digits(Len(fu.Lines)) + 4 + Digits(n) + 17
    IN << [kind |-> "header", fileName |-> fu.FileName,
           uncoveredCount |-> Len(fu.Lines), totalLines |-> n],
          [kind |-> "rule", n |-> IF hlen < 80 THEN hlen ELSE 80] >>
       \o JoinGroups(SourceOf(n), groupLines(fu.Lines), 1)

\* The output of a successful Render of the files fus[k..]
RECURSIVE ExpectedFrom(_, _)
ExpectedFrom(fus, k) ==
    IF k > Len(fus) THEN <<>>
    ELSE (IF k > 1 THEN <<Blank>> ELSE <<>>)
         \o ExpectedFile(fus[k], fs[fus[k].FileName].n)
         \o ExpectedFrom(fus, k + 1)

ExpectedOutput(fus) == ExpectedFrom(fus, 1)

\* The error names the failing file, and no file after it was opened
FailureNamesFileAndStops ==
    /\ err # <<>>
    /\ err[1].file = uncovered[fi].FileName
    /\ fs[uncovered[fi].FileName].status # "ok"
    /\ Opened(io) = [i \in 1..fi |-> uncovered[i].FileName]

\* C7 as stated: on a failure at the k-th file the error names it, no later
\* file is opened, and the sink holds exactly what a Render of files 1..k-1
\* alone writes.
C7_FailureLeavesOnlyEarlierOutput ==
    rpc = "failed" =>
        /\ FailureNamesFileAndStops
        /\ Sink(io) = ExpectedOutput(SubSeq(uncovered, 1, fi - 1))

\* C7 amended: the sink holds what a Render of files 1..k-1 alone writes,
\* followed by the one blank separator line when k > 1; no header, rule or
\* source line of the k-th file is written.
C7_FailureLeavesEarlierOutputAndSeparator ==
    rpc = "failed" =>
        /\ FailureNamesFileAndStops
        /\ Sink(io) = ExpectedOutput(SubSeq(uncovered, 1, fi - 1))
                        \o (IF fi > 1 THEN <<Blank>> ELSE <<>>)

\* C7 witness: the second file cannot be read after the first one was
\* rendered with source lines.
C7_Witness ==
    /\ rpc = "failed"
    /\ fi = 2
    /\ fs[uncovered[2].FileName].status = "readerr"
    /\ \E i \in 1..Len(Sink(io)) : Sink(io)[i].kind = "line"

\* C9: a successful Render writes, per file in input order, a blank line
\* unless it is the first file, the header, the rule of min(80, header
\* length) '=' characters, and the groups with one blank line between two
\* consecutive groups; every header is written right after the file was
\* opened and read.
C9_OutputOrder ==
    rpc = "ok" =>
        /\ Sink(io) = ExpectedOutput(uncovered)
        /\ \A p \in 1..Len(io) :
            (io[p].op = "write" /\ io[p].ev.kind = "header") =>
                /\ p >= 3
                /\ io[p - 1] = [op |-> "read", file |-> io[p].ev.fileName, ok |-> TRUE]
                /\ io[p - 2] = [op |-> "open", file |-> io[p].ev.fileName, ok |-> TRUE]

\* C9 witness: two files rendered, the first with two groups, the second
\* with a header longer than 80 characters.
C9_Witness ==
    /\ rpc = "ok"
    /\ Len(uncovered) = 2
    /\ Len(groupLines(uncovered[1].Lines)) = 2
    /\ fs[uncovered[1].FileName].n = MaxLen
    /\ uncovered[2].FileName = NameLong
    /\ \E i \in 1..Len(Sink(io)) :
        Sink(io)[i].kind = "rule" /\ Sink(io)[i].n = 80

====
